---- MODULE Spec2Model ----
(***************************************************************************)
(* Client-side behaviours of the ADCD Test & Tag site.  The repository     *)
(* holds three revisions of main.js:                                       *)
(*   "main"    src/js/main.js                                              *)
(*   "part000" src/unnamed/part_000                                        *)
(*   "part001" src/unnamed/part_001                                        *)
(* A page loads exactly one of them; `variant` says which.                 *)
(*                                                                         *)
(* JavaScript runs each callback to completion, and the microtasks a       *)
(* callback leaves behind (promise reactions) run before the next task.    *)
(* Every action below is one callback; actions that stand for tasks        *)
(* (network completions, user events, animation frames) are guarded by     *)
(* ~MicrotaskPending.                                                      *)
(***************************************************************************)
EXTENDS Naturals, Sequences, FiniteSets

VARIABLES
  variant,      \* which revision of main.js the page loads
  booted,       \* boot() has run
  outlet,       \* [chain -> BOOLEAN]: the placeholder element is in the DOM
  pc,           \* [chain -> position of the injectPartial promise chain]
  result,       \* [chain -> value of the promise injectPartial returned]
  fetchIssued,  \* [chain -> BOOLEAN]: fetch(url) was called
  outcome,      \* [chain -> how the network request ended]
  injected,     \* [chain -> BOOLEAN]: the fetched markup is in the DOM
  inits,        \* [chain -> log of the runs of the chain's init function]
  order,        \* chains in the order their promise chains finished
  dom,          \* which header elements exist: [header, btn, menu -> BOOLEAN]
  partialHeader,\* what partials/header.html contains, same shape as dom
  yearEls,      \* the .js-year elements in the DOM
  partialYears, \* the .js-year elements partials/footer.html contains
  stamped,      \* the .js-year elements whose text is the current year
  cfg0,         \* the page as loaded (dom, outlet, yearEls), never changed
  menu,         \* attributes and classes of the mobile menu, button and body
  listeners,    \* registered handlers, per event: sequences of closure ids
  ev,           \* the last user event and the menu state before it
  pathname,     \* window.location.pathname
  links,        \* the .nav-link elements of the header: [href, active]
  navRuns,      \* how many times markActiveNav ran
  links0,       \* the links as the markup left them, never changed
  reducedMotion,\* matchMedia("(prefers-reduced-motion: reduce)").matches
  nReveal,      \* number of [data-reveal] elements on the page
  revealObserver, \* window.__revealObserver: 0 (unset) or the observer's id
  observersCreated, \* how many IntersectionObservers were constructed
  observed,     \* set of <<observer id, element>>: who observes what
  visible,      \* [data-reveal] elements carrying the visible class
  everReported, \* elements the observer reported as intersecting
  onLoadFound,  \* elements the on-load check (part001) found in view
  rafQueue,     \* pending requestAnimationFrame callbacks, oldest first
  revealCalls,  \* how many times initRevealOnScroll was called
  revealPre,    \* the reveal state just before the last initRevealOnScroll
  revealEv      \* the last reveal callback and what it was given

bootVars   == <<booted, outlet, pc, result, fetchIssued, outcome, injected,
                inits, order, dom, partialHeader, yearEls, partialYears,
                stamped, cfg0>>
menuVars   == <<menu, listeners, ev>>
navVars    == <<pathname, links, navRuns, links0>>
revealVars == <<reducedMotion, nReveal, revealObserver, observersCreated,
                observed, visible, everReported, onLoadFound, rafQueue,
                revealCalls, revealPre, revealEv>>
vars == <<variant, bootVars, menuVars, navVars, revealVars>>

Variants == {"main", "part000", "part001"}
Chains   == {"header", "footer"}

\* markActiveNav exists in part_000 and part_001 only.
HasNav(v) == v \in {"part000", "part001"}

----------------------------------------------------------------------------
(* Strings are sequences of one-character strings.                         *)

IndexHtml == <<"i","n","d","e","x",".","h","t","m","l">>

RECURSIVE LastIndexOf(_, _, _)
\* Greatest i <= n with s[i] = ch, or 0.
LastIndexOf(s, ch, n) ==
  IF n = 0 THEN 0
  ELSE IF s[n] = ch THEN n ELSE LastIndexOf(s, ch, n - 1)

RECURSIVE IndexOf(_, _, _)
\* Least i >= n with s[i] = ch, or 0.
IndexOf(s, ch, n) ==
  IF n > Len(s) THEN 0
  ELSE IF s[n] = ch THEN n ELSE IndexOf(s, ch, n + 1)

\* s.split(ch).pop(): what follows the last ch (all of s when there is none).
SplitPop(s, ch) ==
  LET i == LastIndexOf(s, ch, Len(s))
  IN  SubSeq(s, i + 1, Len(s))

\* Faulty variant: the query string is not cut off.
SplitFirst_NoCut(s, ch) == s

\* s.split(ch)[0]: what precedes the first ch (all of s when there is none).
SplitFirst(s, ch) ==
  LET i == IndexOf(s, ch, 1)
  IN  IF i = 0 THEN s ELSE SubSeq(s, 1, i - 1)

\* a || b on strings: the empty string is falsy.
OrElse(a, b) == IF a = <<>> THEN b ELSE a

\* getAttribute("href") of a link without the attribute.
Null == <<"<null>">>

\* link.getAttribute("href") || ""
HrefOf(link) == IF link.href = Null THEN <<>> ELSE link.href

\* Whether markActiveNav gives the link the class is-active.
IsActiveLink(link, path) ==
  LET current    == OrElse(SplitPop(path, "/"), IndexHtml)
      normalized == SplitFirst(HrefOf(link), "?")
      isHome     == normalized = IndexHtml
                    /\ (current = <<>> \/ current = IndexHtml)
  IN  normalized = current \/ isHome

\* markActiveNav(): the links after the call.
markActiveNav(hasHeader, path, ls) ==
  IF ~hasHeader THEN ls
  ELSE [i \in DOMAIN ls |-> [ls[i] EXCEPT !.active = IsActiveLink(ls[i], path)]]

----------------------------------------------------------------------------
(* Listeners.  A handler is identified by the run of initHeaderBehaviors   *)
(* that created the closure.                                               *)

\* on(target, type, handler): removeEventListener, then addEventListener.
on(ls, h) == Append(SelectSeq(ls, LAMBDA x : x # h), h)

Str(b) == IF b THEN "true" ELSE "false"

\* Faulty variant: the body class is not toggled.
setMenuState_NoBody(m, open) ==
  [m EXCEPT !.dataOpen = Str(open), !.aria = Str(open)]

\* setMenuState(open) of part_000 / part_001.
setMenuState(m, open) ==
  [m EXCEPT !.dataOpen = Str(open), !.aria = Str(open), !.navOpen = open]

\* Faulty variant: aria-expanded is set to the old state.
ToggleHandler_StaleAria(v, m) ==
  LET open == m.dataOpen = "true"
  IN  IF v = "main"
      THEN [m EXCEPT !.dataOpen = Str(~open), !.pen = open, !.op0 = open,
                     !.aria = Str(open)]
      ELSE [m EXCEPT !.dataOpen = Str(~open), !.aria = Str(open),
                     !.navOpen = ~open]

\* The button's click handler.
ToggleHandler(v, m) ==
  LET open == m.dataOpen = "true"
  IN  IF v = "main"
      THEN [m EXCEPT !.dataOpen = Str(~open), !.pen = open, !.op0 = open,
                     !.aria = Str(~open)]
      ELSE setMenuState(m, ~open)

\* A menu link's click handler (part_000 / part_001).
LinkHandler(m) == setMenuState(m, FALSE)

DesktopWidth == 768

\* Faulty variant: > instead of >=.
ResizeHandler_Strict(m, width) ==
  IF width > DesktopWidth THEN setMenuState(m, FALSE) ELSE m

\* The window's resize handler (part_000 / part_001).
ResizeHandler(m, width) ==
  IF width >= DesktopWidth THEN setMenuState(m, FALSE) ELSE m

\* One listener of the event `kind` runs on menu state m.
RunHandler(kind, v, m, width) ==
  CASE kind = "click"  -> ToggleHandler(v, m)
    [] kind = "link"   -> LinkHandler(m)
    [] kind = "resize" -> ResizeHandler(m, width)

RECURSIVE Dispatch(_, _, _, _, _)
\* The event's listeners run in registration order.
Dispatch(ls, kind, v, m, width) ==
  IF ls = <<>> THEN m
  ELSE Dispatch(Tail(ls), kind, v, RunHandler(kind, v, m, width), width)

\* initHeaderBehaviors(): the listeners after the call.  Each call makes
\* fresh closures, identified by `run`.  (The scroll listener only toggles
\* presentation classes of the header and is kept as a listener entry.)
initHeaderBehaviors(v, d, ls, run) ==
  LET withScroll == [ls EXCEPT !.scroll = on(@, run)]
  IN  IF d.btn /\ d.menu
      THEN IF v = "main"
           THEN [withScroll EXCEPT !.btnClick = on(@, run)]
           ELSE [withScroll EXCEPT !.btnClick = on(@, run),
                                   !.linkClick = on(@, run),
                                   !.resize = on(@, run)]
      ELSE withScroll

----------------------------------------------------------------------------
(* The injectPartial promise chain of each partial:                        *)
(*   idle -> fetching -> reading -> resolved -> done                       *)
(*              |           |          ^                                   *)
(*              +-> rejected +---------+  (.catch)                         *)
(* "resolved": injectPartial's promise is settled and the caller's         *)
(* .then((injected) => ...) is queued; "rejected": an error is on its way  *)
(* to the .catch.  Both are microtasks.                                    *)

MicrotaskPending == \E c \in Chains : pc[c] \in {"rejected", "resolved"}

\* Faulty variants: the assignment to outerHTML is missing; it hits every placeholder.
Replaced_Keep(out, c) == out
Replaced_Both(out, c) == [x \in Chains |-> FALSE]

\* outlet.outerHTML = html: the placeholder leaves the DOM.
Replaced(out, c) == [out EXCEPT ![c] = FALSE]

\* The header elements in the DOM once the header markup d2 has been added.
MergeDom(d, d2) ==
  [header |-> d.header \/ d2.header, btn |-> d.btn \/ d2.btn,
   menu |-> d.menu \/ d2.menu]

\* Faulty variant: the selector is "footer .js-year": years outside a footer are missed.
initFooterYear_FooterOnly(st, ys) == st \cup (ys \ {"inlineOther"})

\* initFooterYear(): every .js-year of the document gets the current year.
initFooterYear(st, ys) == st \cup ys

\* document.querySelector("footer .js-year"): the inline footer's year.
HasInlineFooterYear(ys) == "inlineFooter" \in ys

\* The observable state of the reveal machinery.
RevealState ==
  <<revealObserver, observersCreated, observed, visible, rafQueue>>

Elements == 1 .. nReveal

\* Faulty variant: the guard is missing.
AlreadyInitialized_Never == FALSE

\* if (window.__revealObserver) return;
AlreadyInitialized == revealObserver # 0

\* Faulty variant: the element stays observed.
Unobserve_Noop(obs, o, els) == obs

\* observer.unobserve(el) for every el in els.
Unobserve(obs, o, els) == obs \ {<<o, e>> : e \in els}

\* The body of initRevealOnScroll, per revision.
RevealBody ==
  IF AlreadyInitialized
  THEN UNCHANGED <<revealObserver, observersCreated, observed, visible,
                   rafQueue>>
  ELSE IF variant = "main"
  THEN /\ observersCreated' = observersCreated + 1
       /\ observed' = observed \cup
                        {<<observersCreated + 1, e>> : e \in Elements}
       /\ revealObserver' = observersCreated + 1
       /\ UNCHANGED <<visible, rafQueue>>
  ELSE IF Elements = {}
  THEN UNCHANGED <<revealObserver, observersCreated, observed, visible,
                   rafQueue>>
  ELSE IF reducedMotion
  THEN /\ visible' = visible \cup Elements
       /\ UNCHANGED <<revealObserver, observersCreated, observed, rafQueue>>
  ELSE /\ observersCreated' = observersCreated + 1
       /\ observed' = observed \cup
                        {<<observersCreated + 1, e>> : e \in Elements}
       /\ revealObserver' = observersCreated + 1
       /\ rafQueue' = IF variant = "part001"
                      THEN Append(rafQueue, [kind |-> "onload", els |-> {},
                                             obs |-> observersCreated + 1])
                      ELSE rafQueue
       /\ UNCHANGED visible

\* One call of initRevealOnScroll().
initRevealOnScroll ==
  /\ RevealBody
  /\ revealCalls' = revealCalls + 1
  /\ revealPre' = RevealState
  /\ revealEv' = [kind |-> "init", hit |-> {}, was |-> visible]
  /\ UNCHANGED <<reducedMotion, nReveal, everReported, onLoadFound>>

\* injectPartial up to the point where it returns its promise.
InjectStart(c) ==
  IF outlet[c] THEN [pc |-> "fetching", result |-> "pending", fetch |-> TRUE]
  ELSE [pc |-> "resolved", result |-> "false", fetch |-> FALSE]

\* part_001 only: the script's own DOM-ready call of initRevealOnScroll,
\* registered before boot's and therefore run first.
AutoInit ==
  /\ variant = "part001"
  /\ ~booted
  /\ revealCalls = 0
  /\ initRevealOnScroll
  /\ UNCHANGED <<variant, bootVars, menuVars, navVars>>

\* boot(): injectHeaderAndFooter(), then initRevealOnScroll().
\* (initFloatingLabels of main.js touches only form labels.)
Boot ==
  /\ ~booted
  /\ variant = "part001" => revealCalls = 1
  /\ booted' = TRUE
  /\ pc' = [c \in Chains |-> InjectStart(c).pc]
  /\ result' = [c \in Chains |-> InjectStart(c).result]
  /\ fetchIssued' = [c \in Chains |-> InjectStart(c).fetch]
  /\ initRevealOnScroll
  /\ UNCHANGED <<variant, outlet, outcome, injected, inits, order, dom,
                 partialHeader, yearEls, partialYears, stamped, cfg0,
                 menuVars, navVars>>

\* fetch(url) rejects (network error).
FetchReject(c) ==
  /\ pc[c] = "fetching"
  /\ ~MicrotaskPending
  /\ pc' = [pc EXCEPT ![c] = "rejected"]
  /\ outcome' = [outcome EXCEPT ![c] = "neterr"]
  /\ UNCHANGED <<variant, booted, outlet, result, fetchIssued, injected,
                 inits, order, dom, partialHeader, yearEls, partialYears,
                 stamped, cfg0, menuVars, navVars, revealVars>>

\* fetch(url) fulfils; first .then: throw unless res.ok, else res.text().
FetchResponse(c, ok) ==
  /\ pc[c] = "fetching"
  /\ ~MicrotaskPending
  /\ pc' = [pc EXCEPT ![c] = IF ok THEN "reading" ELSE "rejected"]
  /\ outcome' = [outcome EXCEPT ![c] = IF ok THEN "ok" ELSE "notok"]
  /\ UNCHANGED <<variant, booted, outlet, result, fetchIssued, injected,
                 inits, order, dom, partialHeader, yearEls, partialYears,
                 stamped, cfg0, menuVars, navVars, revealVars>>

\* res.text() rejects (the body cannot be read).
TextReject(c) ==
  /\ pc[c] = "reading"
  /\ ~MicrotaskPending
  /\ pc' = [pc EXCEPT ![c] = "rejected"]
  /\ outcome' = [outcome EXCEPT ![c] = "bodyerr"]
  /\ UNCHANGED <<variant, booted, outlet, result, fetchIssued, injected,
                 inits, order, dom, partialHeader, yearEls, partialYears,
                 stamped, cfg0, menuVars, navVars, revealVars>>

\* .catch: log the error, resolve false.
Catch(c) ==
  /\ pc[c] = "rejected"
  /\ pc' = [pc EXCEPT ![c] = "resolved"]
  /\ result' = [result EXCEPT ![c] = "false"]
  /\ UNCHANGED <<variant, booted, outlet, fetchIssued, outcome, injected,
                 inits, order, dom, partialHeader, yearEls, partialYears,
                 stamped, cfg0, menuVars, navVars, revealVars>>

\* The header's init, from the injection callback or the inline fallback:
\* initHeaderBehaviors(), and markActiveNav() where the revision has it.
\* d is the DOM it runs on, markup whether the header markup is in it.
HeaderInit(path, d, markup) ==
  /\ inits' = [inits EXCEPT !["header"] =
                  Append(@, [path |-> path, markup |-> markup])]
  /\ listeners' = initHeaderBehaviors(variant, d, listeners,
                                      Len(inits["header"]) + 1)
  /\ links' = IF HasNav(variant) THEN markActiveNav(d.header, pathname, links)
              ELSE links
  /\ navRuns' = IF HasNav(variant) THEN navRuns + 1 ELSE navRuns

\* The footer's init: initFooterYear() on the .js-year elements ys.
FooterInit(path, ys, markup) ==
  /\ inits' = [inits EXCEPT !["footer"] =
                  Append(@, [path |-> path, markup |-> markup])]
  /\ stamped' = initFooterYear(stamped, ys)

\* res.text() fulfils; second .then: replace the placeholder by the markup,
\* call after(), return true.
TextResolve(c) ==
  /\ pc[c] = "reading"
  /\ ~MicrotaskPending
  /\ outlet' = Replaced(outlet, c)
  /\ injected' = [injected EXCEPT ![c] = TRUE]
  /\ pc' = [pc EXCEPT ![c] = "resolved"]
  /\ result' = [result EXCEPT ![c] = "true"]
  /\ IF c = "header"
     THEN /\ dom' = MergeDom(dom, partialHeader)
          /\ HeaderInit("callback", dom', ~outlet'[c])
          /\ UNCHANGED <<yearEls, stamped>>
     ELSE /\ yearEls' = yearEls \cup partialYears
          /\ FooterInit("callback", yearEls', ~outlet'[c])
          /\ UNCHANGED <<dom, listeners, links, navRuns>>
  /\ UNCHANGED <<variant, booted, fetchIssued, outcome, order, partialHeader,
                 partialYears, cfg0, menu, ev, pathname, links0, revealVars>>

\* bootInlineHeaderIfPresent() / bootInlineFooterIfPresent().
BootInline(c) ==
  IF c = "header"
  THEN /\ IF dom.header
          THEN HeaderInit("inline", dom, dom.header)
          ELSE UNCHANGED <<inits, listeners, links, navRuns>>
       /\ UNCHANGED stamped
  ELSE /\ IF HasInlineFooterYear(yearEls)
          THEN FooterInit("inline", yearEls, HasInlineFooterYear(yearEls))
          ELSE UNCHANGED <<inits, stamped>>
       /\ UNCHANGED <<listeners, links, navRuns>>

\* Faulty variant: the fallback runs whatever the injection returned.
NeedsFallback_Always(r) == TRUE

\* if (!injected)
NeedsFallback(r) == r = "false"

\* The caller's .then((injected) => { if (!injected) bootInline...(); }).
Settle(c) ==
  /\ pc[c] = "resolved"
  /\ pc' = [pc EXCEPT ![c] = "done"]
  /\ order' = Append(order, c)
  /\ IF NeedsFallback(result[c])
     THEN BootInline(c)
     ELSE UNCHANGED <<inits, listeners, links, navRuns, stamped>>
  /\ UNCHANGED <<variant, booted, outlet, result, fetchIssued, outcome,
                 injected, dom, partialHeader, yearEls, partialYears, cfg0,
                 menu, ev, pathname, links0, revealVars>>

----------------------------------------------------------------------------
(* User events.  The menu record holds data-open of the menu,              *)
(* aria-expanded of the button, nav-open of the body (part_000, part_001)  *)
(* and pointer-events-none / opacity-0 of the menu (main.js).              *)

Open(m) == m.dataOpen = "true"

\* Whether the event's listeners write the menu state: every listener
\* does, but the resize listener below the desktop width.
Writes(kind, width, n) ==
  n >= 1 /\ (kind = "resize" => width >= DesktopWidth)

\* The record of an event that n listeners handled.
Event(kind, width, n) ==
  [kind |-> kind, before |-> menu, width |-> width, n |-> n,
   prevKind |-> ev.kind, prevOpen |-> Open(ev.before), prevN |-> ev.n,
   touched |-> ev.touched \/ Writes(kind, width, n)]

\* The user clicks the [data-mobile-btn] button.
ClickBtn ==
  /\ booted
  /\ ~MicrotaskPending
  /\ dom.btn
  /\ menu' = Dispatch(listeners.btnClick, "click", variant, menu, 0)
  /\ ev' = Event("click", 0, Len(listeners.btnClick))
  /\ UNCHANGED <<variant, bootVars, listeners, navVars, revealVars>>

\* The user clicks a link inside the [data-mobile-menu] menu.
ClickLink ==
  /\ booted
  /\ ~MicrotaskPending
  /\ dom.menu
  /\ menu' = Dispatch(listeners.linkClick, "link", variant, menu, 0)
  /\ ev' = Event("link", 0, Len(listeners.linkClick))
  /\ UNCHANGED <<variant, bootVars, listeners, navVars, revealVars>>

\* The window is resized to window.innerWidth = width.
Resize(width) ==
  /\ booted
  /\ ~MicrotaskPending
  /\ menu' = Dispatch(listeners.resize, "resize", variant, menu, width)
  /\ ev' = Event("resize", width, Len(listeners.resize))
  /\ UNCHANGED <<variant, bootVars, listeners, navVars, revealVars>>

----------------------------------------------------------------------------
(* Reveal on scroll.                                                       *)

Targets(o) == {e \in Elements : <<o, e>> \in observed}

\* The IntersectionObserver callback of observer o: entries for the
\* targets S, those in hit with isIntersecting.
Intersect(o, S, hit) ==
  /\ booted
  /\ ~MicrotaskPending
  /\ S # {}
  /\ S \subseteq Targets(o)
  /\ hit \subseteq S
  /\ observed' = Unobserve(observed, o, hit)
  /\ everReported' = everReported \cup hit
  /\ IF variant = "part001"
     THEN /\ rafQueue' = IF hit = {} THEN rafQueue
                         ELSE Append(rafQueue,
                                [kind |-> "reveal", els |-> hit, obs |-> o])
          /\ UNCHANGED visible
     ELSE /\ visible' = visible \cup hit
          /\ UNCHANGED rafQueue
  /\ revealEv' = [kind |-> "intersect", hit |-> hit, was |-> visible]
  /\ UNCHANGED <<variant, bootVars, menuVars, navVars, reducedMotion,
                 nReveal, revealObserver, observersCreated, onLoadFound,
                 revealCalls, revealPre>>

\* part_001: the oldest requestAnimationFrame callback runs.  A "reveal"
\* callback adds is-visible to the elements its observer callback
\* collected; the "onload" callback reveals and unobserves the elements S
\* whose rectangle is in the viewport.
RafFire(S) ==
  /\ booted
  /\ ~MicrotaskPending
  /\ rafQueue # <<>>
  /\ rafQueue' = Tail(rafQueue)
  /\ LET cb == Head(rafQueue)
     IN  IF cb.kind = "reveal"
         THEN /\ S = cb.els
              /\ visible' = visible \cup cb.els
              /\ UNCHANGED <<observed, onLoadFound>>
         ELSE /\ S \subseteq Elements
              /\ visible' = visible \cup S
              /\ observed' = Unobserve(observed, cb.obs, S)
              /\ onLoadFound' = onLoadFound \cup S
  /\ revealEv' = [kind |-> "raf", hit |-> S, was |-> visible]
  /\ UNCHANGED <<variant, bootVars, menuVars, navVars, reducedMotion,
                 nReveal, revealObserver, observersCreated, everReported,
                 revealCalls, revealPre>>

MaxRevealCalls == 3

\* initRevealOnScroll is a global function, written to be called again
\* ("safe no-op if called multiple times"): any later call of it.
LateCall ==
  /\ booted
  /\ ~MicrotaskPending
  /\ revealCalls < MaxRevealCalls
  /\ initRevealOnScroll
  /\ UNCHANGED <<variant, bootVars, menuVars, navVars>>

----------------------------------------------------------------------------
(* markActiveNav applied on its own.                                       *)

MaxNavRuns == 2

MarkActiveNavCall ==
  /\ navRuns < MaxNavRuns
  /\ links' = markActiveNav(dom.header, pathname, links)
  /\ navRuns' = navRuns + 1
  /\ UNCHANGED <<variant, bootVars, menuVars, pathname, links0, revealVars>>

----------------------------------------------------------------------------
(* Pages.  The markup is an input: a page may carry any combination of    *)
(* the elements the script queries.  partials/header.html supplies header  *)
(* elements (a [data-header], the mobile button, the mobile menu) and      *)
(* partials/footer.html supplies .js-year elements; neither supplies the   *)
(* other's.  The [data-reveal] elements and the motion preference of a     *)
(* page do not change while it is open.                                    *)

DomStates == [header : BOOLEAN, btn : BOOLEAN, menu : BOOLEAN]
NoDom     == [header |-> FALSE, btn |-> FALSE, menu |-> FALSE]

\* .js-year elements: inside the page's own <footer>, elsewhere in the
\* page, and inside partials/footer.html.
InlineYears == {"inlineFooter", "inlineOther"}
FooterPartialYears == {"partialFooter"}

AttrValues == {"absent", "true", "false"}

\* The menu as the markup can leave it, for revision v.
MenuStates(v) ==
  {m \in [dataOpen : AttrValues, aria : AttrValues, navOpen : BOOLEAN,
          pen : BOOLEAN, op0 : BOOLEAN] :
     IF v = "main" THEN ~m.navOpen ELSE ~m.pen /\ ~m.op0}

DefaultMenu ==
  [dataOpen |-> "absent", aria |-> "absent", navOpen |-> FALSE,
   pen |-> FALSE, op0 |-> FALSE]

Widths == {DesktopWidth - 1, DesktopWidth, DesktopWidth + 1}

Slash == <<"/">>
Segments == {<<>>, <<"a">>, <<"b">>, IndexHtml}
Paths == {Slash \o s : s \in Segments}
         \cup {Slash \o <<"a">> \o Slash \o s : s \in Segments}
Hrefs == {Null, <<>>, <<"a">>, <<"b">>, IndexHtml,
          <<"a", "?", "b">>, IndexHtml \o <<"?", "a">>, <<"?", "a">>,
          <<"/", "a">>, <<"a", "?", "b", "?", "a">>}
LinkStates == [href : Hrefs, active : BOOLEAN]

NLinks  == 2
NReveal == 2

BootInit(out, d, ph, ys, pys) ==
  /\ booted = FALSE
  /\ outlet = out
  /\ pc = [c \in Chains |-> "idle"]
  /\ result = [c \in Chains |-> "pending"]
  /\ fetchIssued = [c \in Chains |-> FALSE]
  /\ outcome = [c \in Chains |-> "none"]
  /\ injected = [c \in Chains |-> FALSE]
  /\ inits = [c \in Chains |-> <<>>]
  /\ order = <<>>
  /\ dom = d
  /\ partialHeader = ph
  /\ yearEls = ys
  /\ partialYears = pys
  /\ stamped = {}
  /\ cfg0 = [dom |-> d, outlet |-> out, yearEls |-> ys]

MenuInit(m) ==
  /\ menu = m
  /\ listeners = [scroll |-> <<>>, btnClick |-> <<>>, linkClick |-> <<>>,
                  resize |-> <<>>]
  /\ ev = [kind |-> "none", before |-> m, width |-> 0, n |-> 0,
           prevKind |-> "none", prevOpen |-> Open(m), prevN |-> 0,
           touched |-> FALSE]

NavInit(p, ls) ==
  /\ pathname = p
  /\ links = ls
  /\ links0 = ls
  /\ navRuns = 0

RevealInit(rm, n) ==
  /\ reducedMotion = rm
  /\ nReveal = n
  /\ revealObserver = 0
  /\ observersCreated = 0
  /\ observed = {}
  /\ visible = {}
  /\ everReported = {}
  /\ onLoadFound = {}
  /\ rafQueue = <<>>
  /\ revealCalls = 0
  /\ revealPre = <<0, 0, {}, {}, <<>>>>
  /\ revealEv = [kind |-> "none", hit |-> {}, was |-> {}]

NoOutlets == [c \in Chains |-> FALSE]
HomeLink  == <<[href |-> IndexHtml, active |-> FALSE]>>

\* Boot of any page: every combination of placeholders, inline header
\* elements, partial contents and .js-year elements.
InitBoot ==
  /\ variant \in Variants
  /\ \E out \in [Chains -> BOOLEAN], d \in DomStates, ph \in DomStates,
        ys \in SUBSET InlineYears, pys \in SUBSET FooterPartialYears :
        BootInit(out, d, ph, ys, pys)
  /\ MenuInit(DefaultMenu)
  /\ NavInit(Slash, HomeLink)
  /\ RevealInit(FALSE, 0)

NextBoot ==
  \/ AutoInit
  \/ Boot
  \/ \E c \in Chains : FetchReject(c)
  \/ \E c \in Chains, ok \in BOOLEAN : FetchResponse(c, ok)
  \/ \E c \in Chains : TextReject(c)
  \/ \E c \in Chains : TextResolve(c)
  \/ \E c \in Chains : Catch(c)
  \/ \E c \in Chains : Settle(c)

SpecBoot == InitBoot /\ [][NextBoot]_vars

\* The header and its mobile menu under user events; the page has no
\* footer placeholder and no .js-year.
InitMenu ==
  /\ variant \in Variants
  /\ \E ho \in BOOLEAN, d \in DomStates, ph \in DomStates :
        BootInit([c \in Chains |-> c = "header" /\ ho], d, ph, {}, {})
  /\ \E m \in MenuStates(variant) : MenuInit(m)
  /\ NavInit(Slash, HomeLink)
  /\ RevealInit(FALSE, 0)

NextMenu ==
  \/ NextBoot
  \/ ClickBtn
  \/ ClickLink
  \/ \E w \in Widths : Resize(w)

SpecMenu == InitMenu /\ [][NextMenu]_vars

\* Reveal on scroll; the page has no placeholders and no header.
InitReveal ==
  /\ variant \in Variants
  /\ BootInit(NoOutlets, NoDom, NoDom, {}, {})
  /\ MenuInit(DefaultMenu)
  /\ NavInit(Slash, HomeLink)
  /\ \E rm \in BOOLEAN, n \in 0 .. NReveal : RevealInit(rm, n)

NextReveal ==
  \/ AutoInit
  \/ Boot
  \/ \E c \in Chains : Settle(c)
  \/ \E o \in 1 .. observersCreated, S \in SUBSET Elements :
        \E hit \in SUBSET S : Intersect(o, S, hit)
  \/ \E S \in SUBSET Elements : RafFire(S)
  \/ LateCall

SpecReveal == InitReveal /\ [][NextReveal]_vars

\* markActiveNav on every pathname and every list of links.
InitNav ==
  /\ variant \in {v \in Variants : HasNav(v)}
  /\ \E h \in BOOLEAN :
        BootInit(NoOutlets, [NoDom EXCEPT !.header = h], NoDom, {}, {})
  /\ MenuInit(DefaultMenu)
  /\ \E p \in Paths, ls \in [1 .. NLinks -> LinkStates] : NavInit(p, ls)
  /\ RevealInit(FALSE, 0)

NextNav == MarkActiveNavCall

SpecNav == InitNav /\ [][NextNav]_vars

----------------------------------------------------------------------------
(* Properties.                                                             *)

Done(c) == pc[c] = "done"
AllDone == \A c \in Chains : Done(c)
Failed(c) == outcome[c] \in {"neterr", "notok", "bodyerr"}
CallbackRuns(c) == SelectSeq(inits[c], LAMBDA r : r.path = "callback")
InlineRuns(c)   == SelectSeq(inits[c], LAMBDA r : r.path = "inline")

\* C1: the promise injectPartial returns never rejects; with no element
\* matching outletSel it resolves false and no fetch is issued; when the
\* fetch fails, the response is not OK (or its body cannot be read) it
\* resolves false, the placeholder is still in the DOM and after was not
\* called; it resolves true only with the placeholder replaced by the
\* markup and after called, once, on the replaced DOM.
C1_InjectPartialContract ==
  \A c \in Chains :
    /\ result[c] \in {"pending", "true", "false"}
    /\ pc[c] \in {"resolved", "done"} <=> result[c] # "pending"
    /\ (booted /\ ~cfg0.outlet[c]) => (result[c] = "false" /\ ~fetchIssued[c])
    /\ (Failed(c) /\ result[c] # "pending") =>
         /\ result[c] = "false"
         /\ outlet[c]
         /\ ~injected[c]
         /\ CallbackRuns(c) = <<>>
    /\ result[c] = "true" =>
         /\ ~outlet[c]
         /\ injected[c]
         /\ outcome[c] = "ok"
         /\ CallbackRuns(c) = <<[path |-> "callback", markup |-> TRUE]>>
    /\ result[c] = "false" => CallbackRuns(c) = <<>>

\* One injection resolved true, the other resolved false on a non-OK
\* response with its placeholder left in place.
C1_Witness ==
  /\ result["header"] = "true"
  /\ ~outlet["header"]
  /\ result["footer"] = "false"
  /\ outcome["footer"] = "notok"
  /\ outlet["footer"]

\* C2: in one boot initHeaderBehaviors runs at most once, never from both
\* paths, and only with the header markup in the DOM: from the injection
\* callback after the fetched header replaced the placeholder, or from the
\* inline fallback when the injection resolved false and a [data-header]
\* exists.  Once the header chain has finished it has run exactly once in
\* these two cases and not at all when the injection resolved false and no
\* [data-header] exists.
C2_HeaderInitOnce ==
  LET h == inits["header"]
  IN  /\ Len(h) <= 1
      /\ \A i \in DOMAIN h :
           /\ h[i].markup
           /\ h[i].path = "callback" =>
                injected["header"] /\ ~outlet["header"]
                /\ result["header"] = "true"
           /\ h[i].path = "inline" =>
                result["header"] = "false" /\ dom.header
      /\ Done("header") =>
           /\ result["header"] = "true" =>
                h = <<[path |-> "callback", markup |-> TRUE]>>
           /\ (result["header"] = "false" /\ dom.header) =>
                h = <<[path |-> "inline", markup |-> TRUE]>>
           /\ (result["header"] = "false" /\ ~dom.header) => h = <<>>

\* The placeholder was there, the fetch failed, and the inline fallback
\* initialised the header that the page carries itself.
C2_Witness ==
  /\ Done("header")
  /\ cfg0.outlet["header"]
  /\ Failed("header")
  /\ inits["header"] = <<[path |-> "inline", markup |-> TRUE]>>

Flipped ==
  /\ menu.dataOpen = Str(~Open(ev.before))
  /\ menu.aria = menu.dataOpen

\* C3 as stated: after boot (the header chain has finished) on a page that
\* has both the button and the menu, a click flips the open state and sets
\* aria-expanded to the new value.
C3_AsStated ==
  (ev.kind = "click" /\ Done("header") /\ dom.btn /\ dom.menu) => Flipped

\* C3 amended: once initHeaderBehaviors has run on a page that has both
\* the button and the menu, the button has exactly one click listener and
\* each click flips the open state exactly once: data-open becomes "true"
\* if it was not "true" (absent counts as closed) and "false" if it was,
\* aria-expanded gets the same value, and two consecutive clicks restore
\* the open state before them.
C3_ClickFlipsOnce ==
  (inits["header"] # <<>> /\ dom.btn /\ dom.menu) =>
    /\ listeners.btnClick = <<1>>
    /\ (ev.kind = "click" /\ ev.n >= 1) =>
         /\ ev.n = 1
         /\ Flipped
         /\ (ev.prevKind = "click" /\ ev.prevN >= 1) =>
              Open(menu) = ev.prevOpen

\* Two handled clicks in a row on a menu whose data-open was absent.
C3_Witness ==
  /\ ev.kind = "click" /\ ev.n = 1
  /\ ev.prevKind = "click" /\ ev.prevN = 1
  /\ menu.dataOpen = "false"
  /\ menu.aria = "false"
  /\ Open(ev.before)
  /\ ~ev.prevOpen

Range(f) == {f[i] : i \in DOMAIN f}
Prefixes(t) == {SubSeq(t, 1, k) : k \in 0 .. Len(t)}
Suffixes(t) == {SubSeq(t, k + 1, Len(t)) : k \in 0 .. Len(t)}

\* The text of t before its first "?": the prefix free of "?" that is all
\* of t or is followed by "?".
CutAtQuery(t) ==
  CHOOSE q \in Prefixes(t) :
    /\ "?" \notin Range(q)
    /\ (q = t \/ t[Len(q) + 1] = "?")

\* The last path segment: the suffix free of "/" that is all of the path
\* or is preceded by "/".
LastSegment(t) ==
  CHOOSE q \in Suffixes(t) :
    /\ "/" \notin Range(q)
    /\ (q = t \/ t[Len(t) - Len(q)] = "/")

PageName(t) == IF LastSegment(t) = <<>> THEN IndexHtml ELSE LastSegment(t)

\* C4: after markActiveNav has run with a [data-header] present, every
\* .nav-link of the header carries is-active if and only if it has an href
\* whose text before the first "?" equals the last segment of the
\* pathname, an empty last segment counting as index.html; every other
\* link, a link without href included, is without is-active, whatever it
\* carried before.
C4_ActiveIffMatch ==
  (navRuns >= 1 /\ dom.header) =>
    \A i \in DOMAIN links :
      /\ links[i].href = links0[i].href
      /\ links[i].active <=>
           (links[i].href # Null
            /\ CutAtQuery(links[i].href) = PageName(pathname))

\* On a path ending in "/", index.html?a was off and is highlighted, and a
\* link without href lost a stale highlight.
C4_Witness ==
  /\ navRuns >= 1 /\ dom.header
  /\ pathname = <<"/", "a", "/">>
  /\ links0[1] = [href |-> IndexHtml \o <<"?", "a">>, active |-> FALSE]
  /\ links[1].active
  /\ links0[2] = [href |-> Null, active |-> TRUE]
  /\ ~links[2].active

\* C5: initFooterYear runs at most once per boot, from the callback only
\* after the fetched footer replaced the placeholder.  Once the footer
\* chain has finished: if the partial was injected, or the injection
\* resolved false and an inline "footer .js-year" exists, it has run and
\* every .js-year of the document shows the current year; in all other
\* cases it has not run.
C5_FooterYear ==
  LET f == inits["footer"]
  IN  /\ Len(f) <= 1
      /\ \A i \in DOMAIN f :
           /\ f[i].markup
           /\ f[i].path = "callback" =>
                injected["footer"] /\ ~outlet["footer"]
      /\ Done("footer") =>
           /\ result["footer"] = "true" =>
                /\ f = <<[path |-> "callback", markup |-> TRUE]>>
                /\ stamped = yearEls
           /\ (result["footer"] = "false" /\ HasInlineFooterYear(yearEls)) =>
                /\ f = <<[path |-> "inline", markup |-> TRUE]>>
                /\ stamped = yearEls
           /\ (result["footer"] = "false" /\ ~HasInlineFooterYear(yearEls)) =>
                /\ f = <<>>
                /\ stamped = {}

\* The footer was injected, after the header chain had finished, and the
\* year of the partial and a year outside any footer are both stamped.
C5_Witness ==
  /\ AllDone
  /\ result["footer"] = "true"
  /\ yearEls = {"inlineOther", "partialFooter"}
  /\ stamped = yearEls

\* C6: whatever the number of calls of initRevealOnScroll, at most one
\* IntersectionObserver is created, it is the one stored in
\* window.__revealObserver, no element is observed by another observer, and
\* every call after the first leaves the reveal state as it found it.
C6_InitRevealIdempotent ==
  /\ observersCreated <= 1
  /\ revealObserver = observersCreated
  /\ \A p \in observed : p[1] = 1
  /\ (revealEv.kind = "init" /\ revealCalls >= 2) => RevealState = revealPre

\* part_001: the auto-init created the observer, and boot's call just ran.
C6_Witness ==
  /\ variant = "part001"
  /\ revealCalls = 2
  /\ revealEv.kind = "init"
  /\ observersCreated = 1
  /\ Cardinality(observed) = 2
  /\ Len(rafQueue) = 1

ObservedEls == {p[2] : p \in observed}

\* C7 as stated: an element the observer reports as intersecting gets the
\* visible class and is unobserved in that same callback, is not observed
\* again and keeps the class; an element never reported intersecting, nor
\* found by the on-load check, does not have the visible class.
C7_AsStated ==
  /\ revealEv.kind = "intersect" =>
       \A e \in revealEv.hit : e \in visible /\ e \notin ObservedEls
  /\ everReported \cap ObservedEls = {}
  /\ revealEv.was \subseteq visible
  /\ visible \subseteq (everReported \cup onLoadFound)

\* The elements a pending animation-frame callback of part_001 will reveal.
PendingReveal ==
  UNION {rafQueue[i].els : i \in DOMAIN rafQueue}

\* The elements initRevealOnScroll of part_000 / part_001 makes visible at
\* once when the user prefers reduced motion.
ShownWithoutMotion ==
  IF HasNav(variant) /\ reducedMotion /\ revealCalls >= 1
  THEN Elements ELSE {}

\* C7 amended: an element the observer reports as intersecting is
\* unobserved in that same callback and gets the visible class, in that
\* callback in main.js and part_000, in the animation frame the callback
\* requests in part_001; it is not observed again and the visible class is
\* never removed.  An element has the visible class only if it was
\* reported intersecting, or found by the on-load check of part_001, or
\* initRevealOnScroll of part_000 / part_001 ran while the user prefers
\* reduced motion.
C7_RevealOnce ==
  /\ revealEv.kind = "intersect" =>
       \A e \in revealEv.hit :
         /\ e \notin ObservedEls
         /\ IF variant = "part001"
            THEN e \in visible \cup PendingReveal
            ELSE e \in visible
  /\ (everReported \cup onLoadFound) \cap ObservedEls = {}
  /\ everReported \subseteq (visible \cup PendingReveal)
  /\ onLoadFound \subseteq visible
  /\ revealEv.was \subseteq visible
  /\ visible \subseteq (everReported \cup onLoadFound \cup ShownWithoutMotion)

\* Element 1 was revealed by an earlier callback; a later callback reports
\* element 2 as not intersecting, and it stays hidden and observed.
C7_Witness ==
  /\ 1 \in everReported
  /\ 1 \in visible
  /\ 1 \notin ObservedEls
  /\ revealEv.kind = "intersect"
  /\ revealEv.hit = {}
  /\ 2 \in ObservedEls
  /\ 2 \notin visible

\* C8: once a click, link-click or resize handler has written the menu
\* state, data-open equals aria-expanded, and nav-open is on the body
\* exactly when data-open is "true" (part_000, part_001); in main.js the
\* menu has pointer-events-none and opacity-0 exactly when data-open is
\* "false".
C8_IndicatorsAgree ==
  ev.touched =>
    /\ menu.dataOpen \in {"true", "false"}
    /\ menu.aria = menu.dataOpen
    /\ IF variant = "main"
       THEN /\ menu.pen <=> menu.dataOpen = "false"
            /\ menu.op0 <=> menu.dataOpen = "false"
       ELSE menu.navOpen <=> menu.dataOpen = "true"

\* A resize to the desktop width closed a menu whose indicators disagreed.
C8_Witness ==
  /\ ev.touched
  /\ ev.kind = "resize"
  /\ ev.n = 1
  /\ ev.before.dataOpen = "true"
  /\ ev.before.aria = "absent"
  /\ ~ev.before.navOpen
  /\ menu.dataOpen = "false"

Closed(m) == m.dataOpen = "false" /\ m.aria = "false" /\ ~m.navOpen

Ok(c) == cfg0.outlet[c] /\ outcome[c] = "ok"
ExpectedDom ==
  IF Ok("header") THEN MergeDom(cfg0.dom, partialHeader) ELSE cfg0.dom
ExpectedHeaderRuns ==
  IF Ok("header") THEN <<[path |-> "callback", markup |-> TRUE]>>
  ELSE IF cfg0.dom.header THEN <<[path |-> "inline", markup |-> TRUE]>>
  ELSE <<>>
ExpectedYears ==
  IF Ok("footer") THEN cfg0.yearEls \cup partialYears ELSE cfg0.yearEls
ExpectedFooterRuns ==
  IF Ok("footer") THEN <<[path |-> "callback", markup |-> TRUE]>>
  ELSE IF HasInlineFooterYear(cfg0.yearEls)
  THEN <<[path |-> "inline", markup |-> TRUE]>>
  ELSE <<>>
ExpectedListeners ==
  LET ran  == IF ExpectedHeaderRuns = <<>> THEN <<>> ELSE <<1>>
      both == IF ExpectedDom.btn /\ ExpectedDom.menu THEN ran ELSE <<>>
  IN  [scroll |-> ran, btnClick |-> both,
       linkClick |-> IF variant = "main" THEN <<>> ELSE both,
       resize |-> IF variant = "main" THEN <<>> ELSE both]

\* C10: the two injections are independent.  Once both chains have
\* finished, the page is the same whichever finished first: what each
\* chain leaves depends on the page, its partial and its own request only.
\* A partial whose request succeeded is injected and its init has run
\* (initHeaderBehaviors, and markActiveNav where the revision has it;
\* initFooterYear) whatever happened to the other.  Neither promise
\* rejects, and until both chains have finished a step is pending.
C10_InjectionsIndependent ==
  /\ \A c \in Chains : result[c] \in {"pending", "true", "false"}
  /\ (booted /\ ~AllDone) =>
       \E c \in Chains :
         pc[c] \in {"fetching", "reading", "rejected", "resolved"}
  /\ \A c \in Chains : (Done(c) /\ Ok(c)) =>
       /\ injected[c]
       /\ ~outlet[c]
       /\ inits[c] = <<[path |-> "callback", markup |-> TRUE]>>
  /\ (Done("header") /\ Ok("header") /\ HasNav(variant)) => navRuns = 1
  /\ Done("header") =>
       /\ dom = ExpectedDom
       /\ inits["header"] = ExpectedHeaderRuns
       /\ listeners = ExpectedListeners
       /\ navRuns = IF HasNav(variant) THEN Len(ExpectedHeaderRuns) ELSE 0
       /\ links = IF navRuns = 1
                  THEN markActiveNav(ExpectedDom.header, pathname, links0)
                  ELSE links0
  /\ Done("footer") =>
       /\ yearEls = ExpectedYears
       /\ inits["footer"] = ExpectedFooterRuns
       /\ stamped = IF ExpectedFooterRuns = <<>> THEN {} ELSE ExpectedYears
  /\ AllDone =>
       \A c \in Chains :
         /\ outlet[c] = (cfg0.outlet[c] /\ ~Ok(c))
         /\ injected[c] = Ok(c)

\* The footer's request failed and its chain finished first; the header
\* was injected and initialised all the same.
C10_Witness ==
  /\ AllDone
  /\ order = <<"footer", "header">>
  /\ outcome["footer"] = "neterr"
  /\ result["header"] = "true"
  /\ inits["header"] = <<[path |-> "callback", markup |-> TRUE]>>
  /\ (HasNav(variant) => links[1].active)

====
